---- MODULE Spec2Model ----
(***************************************************************************)
(* Transaction core of blockchain_go (package core, transaction.go):       *)
(* construction, identity hash, signing, verification, size cache and the  *)
(* admission check VerifyTx.                                               *)
(*                                                                         *)
(* Byte strings are sequences of naturals (nil and empty are both <<>>).   *)
(* Output indices are 0-based as in Go; the k-th output of a transaction   *)
(* t is t.Vout[k + 1].                                                     *)
(***************************************************************************)
EXTENDS Integers, Sequences, FiniteSets, TLC

VARIABLES
    tx,        \* the Transaction the operations act on
    op,        \* name of the last operation
    result,    \* how the last operation ended
    args,      \* arguments of the last operation
    seen,      \* values Size() has returned since the content last changed
    sizePc     \* per caller of Size(): "idle", or "store" between Load and Store

vars == <<tx, op, result, args, seen, sizePc>>

\* ------------------------------------------------------------------ bounds
MaxInputs == 2      \* inputs of a record decoded from a peer
MaxAmount == 9      \* largest amount asked of NewUTXOTransaction

\* --------------------------------------------------------------- constants
subsidy == 50

\* ------------------------------------------------------------ big integers
RECURSIVE BigBytes(_)
\* big.Int.Bytes(): minimal big-endian bytes, no leading zero byte
BigBytes(n) == IF n = 0 THEN <<>> ELSE Append(BigBytes(n \div 256), n % 256)

RECURSIVE SetBytes(_)
\* big.Int.SetBytes(): big-endian bytes to integer
SetBytes(b) ==
    IF b = <<>> THEN 0
    ELSE SetBytes(SubSeq(b, 1, Len(b) - 1)) * 256 + b[Len(b)]

\* --------------------------------------------------------------- key pairs
PrivateKeys == {1, 2}
Nonces == {1, 2}

\* the curve point of a private scalar (a two-coordinate toy curve)
PubOf(priv) == <<10 * priv + 1, 10 * priv + 2>>

\* Wallet.PublicKey: the two coordinates, fixed width, concatenated
PublicKey(priv) == BigBytes(PubOf(priv)[1]) \o BigBytes(PubOf(priv)[2])

Wallet(priv) == [PrivateKey |-> priv, PublicKey |-> PublicKey(priv)]

\* HashPubKey: a short digest of the key bytes, never the key itself
HashPubKey(pubKey) ==
    IF pubKey = <<>> THEN <<0>>
    ELSE <<(31 * pubKey[1] + pubKey[Len(pubKey)]) % 251>>

\* Wallet.GetAddress: the textual form of the key hash
GetAddress(w) == [addr |-> HashPubKey(w.PublicKey)]

\* NewTXOutput(value, address): Lock() decodes the address to its key hash
NewTXOutput(value, address) == [Value |-> value, PubKeyHash |-> address.addr]

\* ------------------------------------------------------------------- ecdsa
TxHeader == "--- Transaction "

\* dataToSign is handed to ecdsa.Sign / ecdsa.Verify as the hash. ecdsa does
\* not hash it: it keeps the first 32 bytes (the byte length of the curve
\* order). Those are the hex digits of the 16 characters of TxHeader, the
\* first element of the formatted record.
HashToInt(data) == <<Head(data)>>

DigestNum(digest) == IF digest = <<TxHeader>> THEN 0 ELSE 7

\* The signature components ecdsa.Sign yields for nonce k, on a toy curve:
\* r depends on the nonce alone, s on key, digest and nonce. Nonce 1 gives a
\* one-byte r and a two-byte s, nonce 2 a two-byte r and a one-byte s.
EcdsaR(k) == IF k = 1 THEN 200 ELSE 300
EcdsaS(priv, digest, k) ==
    (IF k = 1 THEN 300 ELSE 200) + priv + DigestNum(digest)

EcdsaSign(priv, data, k) ==
    <<EcdsaR(k), EcdsaS(priv, HashToInt(data), k)>>

\* ecdsa.Verify(pub, data, r, s) with pub = (x, y)
EcdsaVerify(pub, data, r, s) ==
    /\ r > 0
    /\ s > 0
    /\ \E priv \in PrivateKeys, k \in Nonces :
          /\ PubOf(priv) = pub
          /\ EcdsaR(k) = r
          /\ EcdsaS(priv, HashToInt(data), k) = s

\* ------------------------------------------------------------- transaction
NoSize == <<>>

ZeroTx == [ID |-> <<>>, Vin |-> <<>>, Vout |-> <<>>, Timestamp |-> 0,
           size |-> NoSize]

TXInput(txid, vout, sig, pubKey) ==
    [Txid |-> txid, Vout |-> vout, Signature |-> sig, PubKey |-> pubKey]

IsCoinbase(t) ==
    /\ Len(t.Vin) = 1
    /\ Len(t.Vin[1].Txid) = 0
    /\ t.Vin[1].Vout = -1

\* gob encodes the exported fields only
Serialize(t) ==
    [ID |-> t.ID, Vin |-> t.Vin, Vout |-> t.Vout, Timestamp |-> t.Timestamp]

RECURSIVE InputBytes(_)
InputBytes(ins) ==
    IF ins = <<>> THEN 0
    ELSE 2 + Len(Head(ins).Txid) + Len(Head(ins).Signature)
           + Len(Head(ins).PubKey) + InputBytes(Tail(ins))

RECURSIVE OutputBytes(_)
OutputBytes(outs) ==
    IF outs = <<>> THEN 0
    ELSE 2 + Len(Head(outs).PubKeyHash) + OutputBytes(Tail(outs))

\* len(tx.Serialize()): a fixed frame, two bytes per input and output for
\* the integer fields and every byte of the byte fields (32 for a hash).
\* The gob stream is not reproduced byte for byte; as in gob, the length
\* grows with the signature bytes.
SerializeLen(t) ==
    8 + (IF t.ID = <<>> THEN 0 ELSE 32) + InputBytes(t.Vin)
      + OutputBytes(t.Vout)

\* Hash(): sha256 of the serialization with ID blanked
Hash(t) == <<"sha256", Serialize([t EXCEPT !.ID = <<>>])>>

SetSize(t, c) == [t EXCEPT !.size = <<c>>]

\* the copy TrimmedCopy returns
TrimmedCopy(t) ==
    [ID |-> t.ID,
     Vin |-> [i \in 1..Len(t.Vin) |->
                 TXInput(t.Vin[i].Txid, t.Vin[i].Vout, <<>>, <<>>)],
     Vout |-> t.Vout,
     Timestamp |-> t.Timestamp,
     size |-> t.size]

\* what TrimmedCopy leaves in the receiver: tx.SetSize(len(tx.Serialize()))
AfterTrimmedCopy(t) == SetSize(t, SerializeLen(t))

\* String(): the printed fields, header first
String(t) ==
    <<TxHeader, t.ID,
      [i \in 1..Len(t.Vin) |-> <<t.Vin[i].Txid, t.Vin[i].Vout,
                                 t.Vin[i].Signature, t.Vin[i].PubKey>>],
      [i \in 1..Len(t.Vout) |-> <<t.Vout[i].Value, t.Vout[i].PubKeyHash>>],
      t.Timestamp>>

\* fmt.Sprintf("%x\n", txCopy): hex of String(), an injective re-coding
DataToSign(txCopy) == String(txCopy)

\* ------------------------------------------------------------- the chain
P1Id == <<1>>
P2Id == <<2>>
MissingId == <<9>>

P1 == [ID |-> P1Id, Vin |-> <<>>,
       Vout |-> <<NewTXOutput(5, GetAddress(Wallet(1))),
                  NewTXOutput(4, GetAddress(Wallet(2)))>>,
       Timestamp |-> 1, size |-> NoSize]

P2 == [ID |-> P2Id, Vin |-> <<>>,
       Vout |-> <<NewTXOutput(3, GetAddress(Wallet(1)))>>,
       Timestamp |-> 1, size |-> NoSize]

\* prevTXs[hex(txid)]: a missing key yields the zero Transaction
PrevTX(txid) ==
    IF txid = P1Id THEN P1 ELSE IF txid = P2Id THEN P2 ELSE ZeroTx

Resolves(t) == \A i \in 1..Len(t.Vin) : PrevTX(t.Vin[i].Txid).ID # <<>>

InRange(vin) ==
    vin.Vout >= 0 /\ vin.Vout < Len(PrevTX(vin.Txid).Vout)

PanicPrev == "panic: ERROR: Previous transaction is not correct"
PanicIndex == "panic: index out of range"
PanicFunds == "panic: ERROR: Not enough funds"

\* -------------------------------------------------------------------- Sign
\* txCopy inside the loops: the trimmed copy with input i's key field set to
\* the owner hash of the output that input references
CopyForInput(t, i) ==
    [TrimmedCopy(t) EXCEPT
        !.Vin[i].PubKey = PrevTX(t.Vin[i].Txid).Vout[t.Vin[i].Vout + 1].PubKeyHash]

\* signature := append(r.Bytes(), s.Bytes()...)
SignatureBytes(rs) == BigBytes(rs[1]) \o BigBytes(rs[2])

RECURSIVE SignLoop(_, _, _, _, _)
\* the loop of Sign from input i on; orig is the receiver when TrimmedCopy
\* was taken, t the receiver so far, ks the nonce ecdsa draws per input
SignLoop(orig, t, privKey, ks, i) ==
    IF i > Len(t.Vin) THEN [tx |-> t, result |-> "ok"]
    ELSE IF ~InRange(orig.Vin[i]) THEN [tx |-> t, result |-> PanicIndex]
    ELSE SignLoop(orig,
                  [t EXCEPT !.Vin[i].Signature =
                      SignatureBytes(EcdsaSign(privKey,
                                               DataToSign(CopyForInput(orig, i)),
                                               ks[i]))],
                  privKey, ks, i + 1)

\* Sign(privKey, prevTXs): the receiver afterwards and how the call ended
SignOf(t, privKey, ks) ==
    IF IsCoinbase(t) THEN [tx |-> t, result |-> "ok"]
    ELSE IF ~Resolves(t) THEN [tx |-> t, result |-> PanicPrev]
    ELSE SignLoop(t, AfterTrimmedCopy(t), privKey, ks, 1)

\* ------------------------------------------------------------------ Verify
\* r and s as Verify reads them back: the two halves of the stored bytes
SplitSignature(signature) ==
    LET sigLen == Len(signature)
    IN  <<SetBytes(SubSeq(signature, 1, sigLen \div 2)),
          SetBytes(SubSeq(signature, sigLen \div 2 + 1, sigLen))>>

\* the check of input i: split signature and key at half their length
VerifyInput(t, i) ==
    LET vin == t.Vin[i]
        keyLen == Len(vin.PubKey)
        r == SplitSignature(vin.Signature)[1]
        s == SplitSignature(vin.Signature)[2]
        x == SetBytes(SubSeq(vin.PubKey, 1, keyLen \div 2))
        y == SetBytes(SubSeq(vin.PubKey, keyLen \div 2 + 1, keyLen))
    IN  EcdsaVerify(<<x, y>>, DataToSign(CopyForInput(t, i)), r, s)

RECURSIVE VerifyLoop(_, _)
VerifyLoop(t, i) ==
    IF i > Len(t.Vin) THEN "true"
    ELSE IF ~InRange(t.Vin[i]) THEN PanicIndex
    ELSE IF ~VerifyInput(t, i) THEN "false"
    ELSE VerifyLoop(t, i + 1)

\* Verify(prevTXs): "true", "false" or the panic it ends with
VerifyOf(t) ==
    IF IsCoinbase(t) THEN "true"
    ELSE IF ~Resolves(t) THEN PanicPrev
    ELSE VerifyLoop(t, 1)

\* the receiver after Verify: TrimmedCopy ran unless Verify ended before it
AfterVerify(t) ==
    IF IsCoinbase(t) \/ ~Resolves(t) THEN t ELSE AfterTrimmedCopy(t)

\* ---------------------------------------------------------------- VerifyTx
VeryfyFromToAddress(t) ==
    IF IsCoinbase(t) THEN TRUE
    ELSE IF Len(t.Vout) > 0
         THEN ~\E i \in 1..Len(t.Vin) : t.Vin[i].PubKey = t.Vout[1].PubKeyHash
         ELSE TRUE

\* Blockchain.VerifyTransaction: resolves the prior transactions, then Verify
VerifyTransaction(t) == IF IsCoinbase(t) THEN "true" ELSE VerifyOf(t)

RECURSIVE SumValues(_)
SumValues(outs) ==
    IF outs = <<>> THEN 0 ELSE Head(outs).Value + SumValues(Tail(outs))

RECURSIVE SumReferenced(_)
SumReferenced(ins) ==
    IF ins = <<>> THEN 0
    ELSE (IF InRange(Head(ins))
          THEN PrevTX(Head(ins).Txid).Vout[Head(ins).Vout + 1].Value
          ELSE 0) + SumReferenced(Tail(ins))

\* UTXOSet.IsUTXOAmountValid: referenced value covers the declared outputs
IsUTXOAmountValid(t) == SumReferenced(t.Vin) >= SumValues(t.Vout)

\* VerifyTx with the funds check applied to coinbase records as well
VerifyTxNoExemption(t) ==
    LET v == VerifyTransaction(t)
        valid1 == v = "true"
        valid2 == IsUTXOAmountValid(t)
        valid3 == VeryfyFromToAddress(t)
    IN  IF v \notin {"true", "false"} THEN v
        ELSE IF valid1 /\ valid2 /\ valid3 THEN "true" ELSE "false"

\* VerifyTx(tx, bc): "true", "false", or the panic of VerifyTransaction
VerifyTxOf(t) ==
    LET v == VerifyTransaction(t)
        valid1 == v = "true"
        valid2 == ~(IsCoinbase(t) = FALSE /\ ~IsUTXOAmountValid(t))
        valid3 == VeryfyFromToAddress(t)
    IN  IF v \notin {"true", "false"} THEN v
        ELSE IF valid1 /\ valid2 /\ valid3 THEN "true" ELSE "false"

\* -------------------------------------------------------------------- Size
\* rlp.Encode(&c, &tx) in Size(): the signed integer fields (Vout int,
\* Timestamp int64) are not RLP-serializable, the error is dropped and
\* nothing reaches the write counter
RlpCount(t) == 0

Cached(t) == t.size # NoSize /\ t.size[1] # 0

\* ------------------------------------------------------------ UTXO selector
ChainRefs ==
    {[Txid |-> P1Id, Vout |-> 0], [Txid |-> P1Id, Vout |-> 1],
     [Txid |-> P2Id, Vout |-> 0]}

RefOutput(ref) == PrevTX(ref.Txid).Vout[ref.Vout + 1]

\* the unspent outputs locked with pubKeyHash
Unspent(pubKeyHash) ==
    {ref \in ChainRefs : RefOutput(ref).PubKeyHash = pubKeyHash}

Orderings(S) ==
    {f \in [1..Cardinality(S) -> S] :
        \A i, j \in 1..Cardinality(S) : i # j => f[i] # f[j]}

RECURSIVE Accumulate(_, _, _, _, _)
Accumulate(order, amount, i, acc, chosen) ==
    IF i > Len(order) \/ acc >= amount
    THEN [acc |-> acc, validOutputs |-> chosen]
    ELSE Accumulate(order, amount, i + 1,
                    acc + RefOutput(order[i]).Value, Append(chosen, order[i]))

\* UTXOSet.FindSpendableOutputs, walking the owner's outputs in `order`:
\* accumulates until the amount is covered, else the whole balance
FindSpendableOutputs(order, amount) == Accumulate(order, amount, 1, 0, <<>>)

\* ------------------------------------------------------------ construction
\* what time.Now().Unix() can answer
Clock == {1700000000}

NoArgs == [privKey |-> 0, amount |-> 0, acc |-> 0, validOutputs |-> <<>>,
           to |-> <<>>, from |-> <<>>, rs |-> <<>>, split |-> <<>>]

RandomData == {<<201>>, <<202>>}
CoinbaseData == {<<>>, <<7>>}

\* the record NewCoinbaseTX returns; data is the payload after the default
CoinbaseTX(to, data, now) ==
    LET txin == TXInput(<<>>, -1, <<>>, data)
        txout == NewTXOutput(subsidy, to)
        t0 == [ID |-> <<>>, Vin |-> <<txin>>, Vout |-> <<txout>>,
               Timestamp |-> now, size |-> <<0>>]
        t1 == [t0 EXCEPT !.ID = Hash(t0)]
    IN  SetSize(t1, SerializeLen(t1))

\* the outputs with the change appended also when nothing is left over
SpendOutputsGeq(amount, acc, to, from) ==
    IF acc >= amount
    THEN <<NewTXOutput(amount, to), NewTXOutput(acc - amount, from)>>
    ELSE <<NewTXOutput(amount, to)>>

\* the outputs NewUTXOTransaction builds
SpendOutputs(amount, acc, to, from) ==
    IF acc > amount
    THEN <<NewTXOutput(amount, to), NewTXOutput(acc - amount, from)>>
    ELSE <<NewTXOutput(amount, to)>>

\* whether NewUTXOTransaction goes on after the selector's answer
EnoughFunds(acc, amount) == ~(acc < amount)

\* the record NewUTXOTransaction has built when it calls SignTransaction
UnsignedSpend(wallet, to, amount, acc, refs, now) ==
    LET inputs == [i \in 1..Len(refs) |->
                     TXInput(refs[i].Txid, refs[i].Vout, <<>>, wallet.PublicKey)]
        t0 == [ID |-> <<>>, Vin |-> inputs,
               Vout |-> SpendOutputs(amount, acc, to, GetAddress(wallet)),
               Timestamp |-> now, size |-> <<0>>]
        t1 == [t0 EXCEPT !.ID = Hash(t0)]
    IN  SetSize(t1, SerializeLen(t1))

\* ----------------------------------------------------- records from peers
PeerRefs ==
    ChainRefs \cup {[Txid |-> P1Id, Vout |-> 2], [Txid |-> P1Id, Vout |-> -1],
                    [Txid |-> MissingId, Vout |-> 0]}

PeerKeys == {<<>>, PublicKey(1), PublicKey(2)}

PeerOutputs ==
    {<<>>,
     <<[Value |-> 4, PubKeyHash |-> HashPubKey(PublicKey(2))]>>,
     <<[Value |-> 9, PubKeyHash |-> HashPubKey(PublicKey(2))]>>,
     <<[Value |-> 4, PubKeyHash |-> PublicKey(1)]>>}

\* the records a peer can send: unsigned, one key in every input
PeerTX(refs, key, outs, now) ==
    LET t0 == [ID |-> <<>>,
               Vin |-> [i \in 1..Len(refs) |->
                          TXInput(refs[i].Txid, refs[i].Vout, <<>>, key)],
               Vout |-> outs, Timestamp |-> now, size |-> NoSize]
    IN  [t0 EXCEPT !.ID = Hash(t0)]

Callers == {1, 2}

\* ----------------------------------------------------------------- actions
\* The model follows one record: it is built or decoded once, from the
\* initial state, and the other operations then act on it in any order.
Fresh == op = "none"
HasRecord == tx # ZeroTx

Init ==
    /\ tx = ZeroTx
    /\ op = "none"
    /\ result = "none"
    /\ args = NoArgs
    /\ seen = {}
    /\ sizePc = [c \in Callers |-> "idle"]

NewCoinbaseTX ==
    \E w \in PrivateKeys, data \in CoinbaseData, rnd \in RandomData,
       now \in Clock :
        /\ Fresh
        /\ tx' = CoinbaseTX(GetAddress(Wallet(w)),
                            IF data = <<>> THEN rnd ELSE data, now)
        /\ op' = "NewCoinbaseTX"
        /\ result' = "ok"
        /\ args' = [NoArgs EXCEPT !.to = GetAddress(Wallet(w)).addr]
        /\ seen' = {}
        /\ sizePc' = [c \in Callers |-> "idle"]

NewUTXOTransaction ==
    \E w \in PrivateKeys, toW \in PrivateKeys, amount \in 0..MaxAmount,
       now \in Clock :
    \E order \in Orderings(Unspent(HashPubKey(Wallet(w).PublicKey))) :
        LET wallet == Wallet(w)
            to == GetAddress(Wallet(toW))
            found == FindSpendableOutputs(order, amount)
            a == [NoArgs EXCEPT !.privKey = w, !.amount = amount,
                                !.acc = found.acc,
                                !.to = to.addr,
                                !.from = GetAddress(wallet).addr]
        IN  /\ Fresh
            /\ op' = "NewUTXOTransaction"
            /\ IF ~EnoughFunds(found.acc, amount)
               THEN /\ result' = PanicFunds
                    /\ args' = a
                    /\ UNCHANGED <<tx, seen, sizePc>>
               ELSE \E refs \in Orderings({found.validOutputs[i] :
                                     i \in 1..Len(found.validOutputs)}) :
                    \E ks \in [1..Len(refs) -> Nonces] :
                        LET signed == SignOf(UnsignedSpend(wallet, to, amount,
                                                           found.acc, refs, now),
                                             wallet.PrivateKey, ks)
                        IN  /\ tx' = signed.tx
                            /\ result' = signed.result
                            /\ args' = [a EXCEPT !.validOutputs = refs]
                            /\ seen' = {}
                            /\ sizePc' = [c \in Callers |-> "idle"]

DeserializeTransaction ==
    \E n \in 1..MaxInputs :
    \E refs \in [1..n -> PeerRefs], key \in PeerKeys, outs \in PeerOutputs,
       now \in Clock :
        /\ Fresh
        /\ tx' = PeerTX(refs, key, outs, now)
        /\ op' = "DeserializeTransaction"
        /\ result' = "ok"
        /\ args' = NoArgs
        /\ seen' = {}
        /\ sizePc' = [c \in Callers |-> "idle"]

\* A record is signed once, before it is shared: Sign acts on a record whose
\* inputs carry no signature yet.
Unsigned(t) == \A i \in 1..Len(t.Vin) : t.Vin[i].Signature = <<>>

Sign ==
    \E privKey \in PrivateKeys, ks \in [1..Len(tx.Vin) -> Nonces] :
        LET signed == SignOf(tx, privKey, ks)
        IN  /\ HasRecord
            /\ Unsigned(tx)
            /\ tx' = signed.tx
            /\ op' = "Sign"
            /\ result' = signed.result
            /\ args' = [NoArgs EXCEPT !.privKey = privKey]
            /\ seen' = IF Serialize(signed.tx) = Serialize(tx) THEN seen ELSE {}
            /\ UNCHANGED sizePc

Verify ==
    /\ HasRecord
    /\ tx' = AfterVerify(tx)
    /\ op' = "Verify"
    /\ result' = VerifyOf(tx)
    /\ args' = NoArgs
    /\ UNCHANGED <<seen, sizePc>>

\* VerifyTx takes the Transaction by value: the caller's record is untouched
VerifyTx ==
    /\ HasRecord
    /\ op' = "VerifyTx"
    /\ result' = VerifyTxOf(tx)
    /\ args' = NoArgs
    /\ UNCHANGED <<tx, seen, sizePc>>

\* Size(), up to and including the Load: a cached non-zero value is returned
SizeLoad(c) ==
    /\ HasRecord
    /\ sizePc[c] = "idle"
    /\ op' = "Size"
    /\ args' = NoArgs
    /\ IF Cached(tx)
       THEN /\ result' = "returned"
            /\ seen' = seen \cup {tx.size[1]}
            /\ UNCHANGED <<tx, sizePc>>
       ELSE /\ result' = "computing"
            /\ sizePc' = [sizePc EXCEPT ![c] = "store"]
            /\ UNCHANGED <<tx, seen>>

\* Size(), the rest: count the encoding, Store it, return it
SizeStore(c) ==
    /\ sizePc[c] = "store"
    /\ tx' = SetSize(tx, RlpCount(tx))
    /\ op' = "Size"
    /\ result' = "returned"
    /\ args' = NoArgs
    /\ seen' = seen \cup {RlpCount(tx)}
    /\ sizePc' = [sizePc EXCEPT ![c] = "idle"]

Next ==
    \/ NewCoinbaseTX
    \/ NewUTXOTransaction
    \/ DeserializeTransaction
    \/ Sign
    \/ Verify
    \/ VerifyTx

\* one thread at a time: construction, signing and validation
Spec == Init /\ [][Next]_vars

NextSize ==
    \/ Next
    \/ \E c \in Callers : SizeLoad(c)
    \/ \E c \in Callers : SizeStore(c)

\* the same, with two callers of Size() sharing the record
SpecSize == Init /\ [][NextSize]_vars

\* ------------------------------------------------- signature encoding alone
\* The signature bytes of one input, for components ecdsa.Sign can return:
\* small ones and ones on either side of the one-byte / two-byte boundary.
MaxComponent == 258

Components == 1..3 \cup 254..MaxComponent

\* a record with one unsigned input, and the pair (r, s) ecdsa.Sign returned
InitSig ==
    \E r \in Components, s \in Components, now \in Clock :
        /\ tx = PeerTX(<<[Txid |-> P1Id, Vout |-> 0]>>, PublicKey(1), <<>>, now)
        /\ op = "none"
        /\ result = "none"
        /\ args = [NoArgs EXCEPT !.privKey = 1, !.rs = <<r, s>>]
        /\ seen = {}
        /\ sizePc = [c \in Callers |-> "idle"]

\* Sign: signature := append(r.Bytes(), s.Bytes()...), stored in the input
StoreSignature ==
    /\ op = "none"
    /\ tx' = [tx EXCEPT !.Vin[1].Signature = SignatureBytes(args.rs)]
    /\ op' = "StoreSignature"
    /\ result' = "ok"
    /\ UNCHANGED <<args, seen, sizePc>>

\* Verify: r and s set from the two halves of the stored signature
ReadSignature ==
    /\ op = "StoreSignature"
    /\ args' = [args EXCEPT !.split = SplitSignature(tx.Vin[1].Signature)]
    /\ op' = "ReadSignature"
    /\ result' = "ok"
    /\ UNCHANGED <<tx, seen, sizePc>>

NextSig ==
    \/ StoreSignature
    \/ ReadSignature

SpecSig == InitSig /\ [][NextSig]_vars

\* ------------------------------------------------------------------ claims

\* the three checks VerifyTx composes, each taken on its own
SignaturesVerify(t) == VerifyOf(t) = "true"
FundsSuffice(t) == IsUTXOAmountValid(t)
SelfTransferPolicy(t) == VeryfyFromToAddress(t)

\* C1: VerifyTx admits a record iff the signature check, the funds check and
\* the self-transfer check all succeed; for a coinbase record the admission
\* is the result of the signature check alone.
AdmissionIffAllChecks ==
    op = "VerifyTx" =>
        ((result = "true") <=>
            IF IsCoinbase(tx) THEN SignaturesVerify(tx)
            ELSE /\ SignaturesVerify(tx)
                 /\ FundsSuffice(tx)
                 /\ SelfTransferPolicy(tx))

\* C1 witness: a signed spend with valid signatures and an allowed recipient
\* is refused by VerifyTx because its outputs exceed the referenced value.
RefusedForFundsAlone ==
    /\ op = "VerifyTx"
    /\ ~IsCoinbase(tx)
    /\ SignaturesVerify(tx)
    /\ ~FundsSuffice(tx)
    /\ SelfTransferPolicy(tx)
    /\ result = "false"

\* C2: Verify accepts a non-coinbase record only if the key of every input
\* hashes to the owner hash of the output that input references.
VerifyChecksOwnerKey ==
    (op = "Verify" /\ result = "true" /\ ~IsCoinbase(tx)) =>
        \A i \in 1..Len(tx.Vin) :
            HashPubKey(tx.Vin[i].PubKey) = RefOutput(tx.Vin[i]).PubKeyHash

\* the record was just signed with the key that owns every referenced output
\* and that every input carries
SignedByOwner ==
    /\ op \in {"Sign", "NewUTXOTransaction"}
    /\ result = "ok"
    /\ ~IsCoinbase(tx)
    /\ Resolves(tx)
    /\ \A i \in 1..Len(tx.Vin) :
          /\ InRange(tx.Vin[i])
          /\ tx.Vin[i].PubKey = PublicKey(args.privKey)
          /\ RefOutput(tx.Vin[i]).PubKeyHash =
                HashPubKey(PublicKey(args.privKey))

\* C3: a record signed with the key that owns its referenced outputs, and
\* then verified, verifies.
SignVerifyRoundTrip ==
    [][(SignedByOwner /\ op' = "Verify") => result' = "true"]_vars

\* C4: a non-coinbase record with an output whose first owner hash is the
\* hash of an input's key fails the self-transfer check and is not admitted.
SelfTransferRejected ==
    (/\ op = "VerifyTx"
     /\ ~IsCoinbase(tx)
     /\ Len(tx.Vout) > 0
     /\ \E i \in 1..Len(tx.Vin) :
           HashPubKey(tx.Vin[i].PubKey) = tx.Vout[1].PubKeyHash)
    => (~SelfTransferPolicy(tx) /\ result # "true")

\* C5: Sign or Verify of a non-coinbase record with an unresolved reference
\* ends with a MissingReferenceError handed back to the caller, and leaves
\* every signature as it was.
MissingReferenceIsError ==
    [][(op' \in {"Sign", "Verify"} /\ ~IsCoinbase(tx) /\ ~Resolves(tx)) =>
          /\ result' = "MissingReferenceError"
          /\ \A i \in 1..Len(tx.Vin) :
                tx'.Vin[i].Signature = tx.Vin[i].Signature]_vars

\* C6: NewUTXOTransaction returns a record only if acc >= amount, else it
\* fails for lack of funds with nothing built or signed; a returned record
\* has one input per selected output, pays amount to the recipient first,
\* has a change output of acc - amount to the sender iff acc > amount, and
\* its output values sum to acc.
FundsEnforcement ==
    op = "NewUTXOTransaction" =>
        /\ (result = "ok" => args.acc >= args.amount)
        /\ (args.acc < args.amount => result = PanicFunds /\ tx = ZeroTx)
        /\ result = "ok" =>
            /\ Len(tx.Vin) = Len(args.validOutputs)
            /\ \A i \in 1..Len(tx.Vin) :
                  /\ tx.Vin[i].Txid = args.validOutputs[i].Txid
                  /\ tx.Vin[i].Vout = args.validOutputs[i].Vout
            /\ Len(tx.Vout) \in {1, 2}
            /\ tx.Vout[1] = [Value |-> args.amount, PubKeyHash |-> args.to]
            /\ (Len(tx.Vout) = 2 <=> args.acc > args.amount)
            /\ (Len(tx.Vout) = 2 =>
                  tx.Vout[2] = [Value |-> args.acc - args.amount,
                                PubKeyHash |-> args.from])
            /\ SumValues(tx.Vout) = args.acc

\* C6 witness: a spend of two selected outputs that leaves change.
SpendWithChange ==
    /\ op = "NewUTXOTransaction"
    /\ result = "ok"
    /\ Len(tx.Vin) = 2
    /\ args.acc > args.amount
    /\ Len(tx.Vout) = 2

\* C7: every Size() of a record whose content has not changed returns the
\* same integer.
SizeCacheConsistent == Cardinality(seen) <= 1

\* C8: Verify of a non-coinbase record whose references all resolve returns
\* true or false.
VerifyAlwaysBoolean ==
    (op = "Verify" /\ ~IsCoinbase(tx) /\ Resolves(tx)) =>
        result \in {"true", "false"}

\* C9: the record NewCoinbaseTX or NewUTXOTransaction returns carries the
\* hash of its own content as its ID.
IdentityAfterConstruction ==
    (op \in {"NewCoinbaseTX", "NewUTXOTransaction"} /\ result = "ok") =>
        tx.ID = Hash(tx)

\* C10: a successful Sign changes only the Signature of the inputs, and
\* nothing at all on a coinbase record.
FrameOfSign ==
    [][(op' = "Sign" /\ result' = "ok") =>
          /\ tx'.ID = tx.ID
          /\ Len(tx'.Vin) = Len(tx.Vin)
          /\ \A i \in 1..Len(tx.Vin) :
                /\ tx'.Vin[i].Txid = tx.Vin[i].Txid
                /\ tx'.Vin[i].Vout = tx.Vin[i].Vout
                /\ tx'.Vin[i].PubKey = tx.Vin[i].PubKey
          /\ tx'.Vout = tx.Vout
          /\ tx'.Timestamp = tx.Timestamp
          /\ tx'.size = tx.size
          /\ (IsCoinbase(tx) => tx' = tx)]_vars

\* C11: the bytes Sign stores for a pair (r, s) are split by Verify into
\* exactly r and s.
SignatureSplitsBack ==
    op = "ReadSignature" => args.split = args.rs

====
